---- MODULE Spec2Model ----
(***************************************************************************)
(* Model of parasync's synchronization engine (src/parasync/gui.py):       *)
(* the diff preview, and the SyncWorker operations Mirror Push, Mirror     *)
(* Pull and Two-Way Merge acting on a local directory, a remote directory  *)
(* and the two trash areas; the Connectivity Test, Bootstrap and remote     *)
(* listing operations; and the profile store (src/parasync/config.py).     *)
(*                                                                         *)
(* A directory is a function from entry names to contents.  An entry name  *)
(* is a record [base, nums, ext] standing for the string                   *)
(*     base ("_" num)* ext                                                 *)
(* so that pathlib's stem/suffix split and the "{stem}_{i}{suffix}"        *)
(* renaming of _do_pull are computed on the name and not assumed.          *)
(***************************************************************************)
EXTENDS Integers, Sequences, FiniteSets, TLC

\* ------------------------------------------------------------------ bounds
NumNames == 3      \* how many names of NamePool a directory may start with
MaxRuns  == 2      \* how many worker operations one behaviour runs
NumProfiles == 3   \* how many profile names the store operations draw from
MaxWorkers == 4    \* how many worker threads one window starts
MaxWrites == 3     \* how many profile mutations reach config.json

\* ------------------------------------------------------------------- names
N(b, ns, e) == [base |-> b, nums |-> ns, ext |-> e]

NoName == N("", <<>>, "")

\* a.txt, .env, b.txt, a_1.txt
NamePool ==
  << N("a", <<>>, ".txt"), N(".env", <<>>, ""),
     N("b", <<>>, ".txt"), N("a", <<1>>, ".txt") >>

Names == { NamePool[i] : i \in 1..(IF NumNames < Len(NamePool) THEN NumNames ELSE Len(NamePool)) }

\* bases that begin with a dot
DotBases == { ".env" }

\* An entry whose name begins with "." : not matched by the shell glob `*`
\* (gui.py:276, gui.py:322) and not printed by `ls -1` (gui.py:343).
Hidden(nm) == nm.base \in DotBases

Visible(dir) == { nm \in DOMAIN dir : ~Hidden(nm) }

EmptyDir == [nm \in {} |-> "L"]

Restrict(dir, S) == [nm \in (DOMAIN dir) \cap S |-> dir[nm]]

\* every ordering of a finite set (iteration order of iterdir() / of a set)
Perms(S) ==
  { s \in [1..Cardinality(S) -> S] :
      \A i, j \in 1..Cardinality(S) : i # j => s[i] # s[j] }

\* --------------------------------------------------------------- variables
VARIABLES
  local, localExists,     \* the local folder: entries, and whether it exists
  remote, remoteExists,   \* the remote folder
  ltrash,                 \* ~/.parasync_trash on the local machine
  rtrash,                 \* ~/.Trash on the remote machine
  operation,              \* SyncWorker.operation of the running worker
  pc,                     \* position of the worker inside its operation
  files, idx,             \* the list being iterated and the 1-based position
  local_files,            \* _do_sync: snapshot of local names
  remote_files,           \* _do_sync: names parsed from the remote listing
  finished,               \* last signals.finished.emit(success, message)
  cmds,                   \* transport commands issued by the current run
  local0, remote0,        \* the directories as they were when the run began
  ltrash0, rtrash0,
  prev,                   \* whether the preceding run was a Two-Way Merge
                          \* that reported success, every command succeeding
  runs,                   \* number of runs started
  diffS, diffD, diffOut,  \* DiffPreviewDialog: inputs and computed diff
  keyExists, pubExists,   \* ~/.ssh/id_ed25519_parasync and its .pub exist
  sshDir,                 \* the remote ~/.ssh exists
  authorized_keys,        \* lines of the remote ~/.ssh/authorized_keys
  file_list,              \* last signals.file_list.emit(files)
  profiles,               \* AppConfig.profiles
  profiles0,              \* AppConfig.profiles before the last store operation
  lastOp,                 \* the last store operation, its argument and result
  gui,                    \* MainWindow's fields, its buttons and debounce timer,
                          \* and the worker threads it has started
  events,                 \* `finished` signals queued for the main thread
  booted,                 \* the start-up single-shot timer has fired
  cfg_file,               \* the profiles stored in config.json
  gui_cfg, gui_loaded,    \* MainWindow.cfg, read once by __init__
  writer,                 \* a CLI process running profile-add or profile-del
  lastWrite,              \* the last mutation saved to config.json
  writes,                 \* number of mutations started
  cli_args,               \* what a CLI invocation was given
  result,                 \* the CmdResult a CLI invocation returned
  codes                   \* every (reason, return code) the CLI has returned

fsvars   == << local, localExists, remote, remoteExists, ltrash, rtrash >>
snapvars == << local0, remote0, ltrash0, rtrash0, prev, runs >>
diffvars == << diffS, diffD, diffOut >>
workvars == << operation, pc, files, idx, local_files, remote_files,
               finished, cmds >>
setupvars == << keyExists, pubExists, sshDir, authorized_keys >>
storevars == << profiles, profiles0, lastOp >>
guivars  == << gui, events, booted >>
filevars == << cfg_file, gui_cfg, gui_loaded, writer, lastWrite, writes >>
clivars  == << cli_args, result, codes >>
procvars == << filevars, clivars >>
appvars  == << storevars, guivars, procvars >>
extvars  == << setupvars, file_list, appvars >>
workervars == << fsvars, workvars, snapvars, diffvars, setupvars, file_list >>
vars     == << fsvars, workvars, snapvars, diffvars, extvars >>

\* ------------------------------------------------------------- diff engine
\* gui.py:67-69
to_add(S, D) == S \ D

to_delete_swapped(S, D) == S \ D

to_delete(S, D) == D \ S

to_overwrite(S, D) == S \cap D

NoDiff == [to_add |-> {}, to_delete |-> {}, to_overwrite |-> {}, done |-> FALSE]

\* DiffPreviewDialog.__init__ : compute the three sets for source S, dest D
DiffPreviewDialog ==
  /\ ~diffOut.done
  /\ diffOut' = [ to_add       |-> to_add(diffS, diffD),
                  to_delete    |-> to_delete(diffS, diffD),
                  to_overwrite |-> to_overwrite(diffS, diffD),
                  done         |-> TRUE ]
  /\ UNCHANGED << diffS, diffD, fsvars, workvars, snapvars, extvars >>

\* the dialog is closed; the next preview starts from the same inputs
DiffClose ==
  /\ diffOut.done
  /\ diffOut' = NoDiff
  /\ UNCHANGED << diffS, diffD, fsvars, workvars, snapvars, extvars >>

\* ---------------------------------------------------------------- outcomes
Outcome(s, m, nm, u, d) ==
  [success |-> s, msg |-> m, name |-> nm, up |-> u, down |-> d]

NoOutcome == Outcome(FALSE, "none", NoName, 0, 0)

\* one transport invocation: what was run, on which entry, how it ended
Cmd(k, nm, ok, e) == [kind |-> k, name |-> nm, ok |-> ok, err |-> e]

\* scp of one entry into a directory (creates or overwrites that entry)
CopyIntoClobber(dir, nm, c) == [x \in {nm} |-> c]

CopyInto(dir, nm, c) ==
  [x \in (DOMAIN dir) \cup {nm} |-> IF x = nm THEN c ELSE dir[x]]

\* `mv src/* dst/` and `scp -r src/* dst`: every entry of src lands in dst
\* under its own name, replacing a same-named entry of dst
MergeInto(dst, src) ==
  [x \in (DOMAIN dst) \cup (DOMAIN src) |->
      IF x \in DOMAIN src THEN src[x] ELSE dst[x]]

\* ------------------------------------------------------------------- init
\* what the local trash may hold from earlier use: any of a.txt, a_1.txt
TrashSeeds == { [nm \in S |-> "T"] : S \in SUBSET { NamePool[1], NamePool[4] } }

InitDirs ==
  /\ localExists \in BOOLEAN
  /\ local \in { [nm \in S |-> "L"] : S \in (IF localExists THEN SUBSET Names ELSE {{}}) }
  /\ remoteExists \in BOOLEAN
  /\ remote \in { [nm \in S |-> "R"] : S \in (IF remoteExists THEN SUBSET Names ELSE {{}}) }

InitFs ==
  /\ InitDirs
  /\ ltrash = EmptyDir
  /\ rtrash = EmptyDir

InitWork ==
  /\ operation = "none"
  /\ pc = "idle"
  /\ files = <<>>
  /\ idx = 0
  /\ local_files = {}
  /\ remote_files = {}
  /\ finished = NoOutcome
  /\ cmds = <<>>

InitSnap ==
  /\ local0 = local
  /\ remote0 = remote
  /\ ltrash0 = ltrash
  /\ rtrash0 = rtrash
  /\ prev = FALSE
  /\ runs = 0

\* the parts of the state a specification does not exercise
NoSetup ==
  /\ keyExists = FALSE /\ pubExists = FALSE
  /\ sshDir = FALSE /\ authorized_keys = <<>>

NoList == file_list = {}

\* no profile of the store is involved
NoOp == [op |-> "none", name |-> "", prof |-> [name |-> "", host |-> ""], ret |-> FALSE]

NoStore == profiles = <<>> /\ profiles0 = <<>> /\ lastOp = NoOp

\* the window as constructed without a stored profile (gui.py:402-441)
NewWindow(ip, lp) ==
  [ mac_ip |-> ip, ssh_ok |-> FALSE, key_ok |-> FALSE, local_path |-> lp,
    current_worker |-> 0, pending_operation |-> "", watching |-> FALSE,
    timer |-> FALSE, armed_by |-> "none", busy |-> FALSE, btn_setup |-> TRUE,
    threads |-> <<>> ]

NoGui == gui = NewWindow(FALSE, FALSE) /\ events = <<>> /\ booted = FALSE

\* a CLI process that is not running
NoWriter == [pc |-> "idle", cmd |-> "none", name |-> "", host |-> "", cfg |-> <<>>]

NoWrite == [op |-> "none", name |-> ""]

\* no config.json yet: load_config gives the empty list (config.py:37-38)
NoFile ==
  /\ cfg_file = <<>> /\ gui_cfg = <<>> /\ gui_loaded = FALSE
  /\ writer = NoWriter /\ lastWrite = NoWrite /\ writes = 0

NoArgs ==
  [cmd |-> "none", found |-> FALSE, local |-> FALSE, remote |-> FALSE,
   ensure |-> FALSE, tools |-> FALSE]

NoResult == [returncode |-> -1, why |-> "none"]

NoCli == cli_args = NoArgs /\ result = NoResult /\ codes = {}

NoProc == NoFile /\ NoCli

NoApp == NoStore /\ NoGui /\ NoProc

NoExt == NoSetup /\ NoList /\ NoApp

Init ==
  /\ InitFs
  /\ InitWork
  /\ InitSnap
  /\ diffS = {} /\ diffD = {} /\ diffOut = NoDiff
  /\ NoExt

\* folders as in Init, the local trash already in use
InitPull ==
  /\ InitDirs
  /\ ltrash \in TrashSeeds
  /\ rtrash = EmptyDir
  /\ InitWork
  /\ InitSnap
  /\ diffS = {} /\ diffD = {} /\ diffOut = NoDiff
  /\ NoExt

InitDiff ==
  /\ localExists = FALSE /\ local = EmptyDir
  /\ remoteExists = FALSE /\ remote = EmptyDir
  /\ ltrash = EmptyDir /\ rtrash = EmptyDir
  /\ InitWork
  /\ InitSnap
  /\ diffS \in SUBSET Names
  /\ diffD \in SUBSET Names
  /\ diffOut = NoDiff
  /\ NoExt

\* ------------------------------------------------------------ SyncWorker
\* SyncWorker.run : dispatch on self.operation
Start(op) ==
  /\ pc \in { "idle", "done" }
  /\ runs < MaxRuns
  /\ runs' = runs + 1
  /\ operation' = op
  /\ pc' = op
  /\ prev' = ( /\ operation = "sync"
               /\ finished.success
               /\ \A i \in 1..Len(cmds) : cmds[i].ok )
  /\ finished' = NoOutcome
  /\ cmds' = <<>>
  /\ files' = <<>> /\ idx' = 0
  /\ local_files' = {} /\ remote_files' = {}
  /\ local0' = local /\ remote0' = remote
  /\ ltrash0' = ltrash /\ rtrash0' = rtrash
  /\ UNCHANGED << fsvars, diffvars, extvars >>

\* emit the terminal outcome and return from the operation
Finish(out) ==
  /\ finished' = out
  /\ pc' = "done"

\* the `for` loops of gui.py:286, 365 and 371 take each entry once: after an
\* entry's copy the loop moves to the next position
NextIndexSame(i) == i

NextIndex(i) == i + 1

\* ------------------------------------------------------------ Mirror Push
\* gui.py:279-281  `if not ok: emit(False, "Failed to prepare ..."); return`
PrepareAbortsNever(ok) == FALSE

PrepareAborts(ok) == ~ok

\* gui.py:294-296  `if not ok: emit(False, "Push failed on ..."); return`
PushCopyAbortsNever(ok) == FALSE

PushCopyAborts(ok) == ~ok

\* Exit status of the remote command of gui.py:274-277
\*   mkdir -p ~/.Trash && if [ -d R ] && [ "$(ls -A R)" ]; then
\*   mv R/* ~/.Trash/ 2>/dev/null; fi && mkdir -p R
\* `ls -A` counts dot entries, the glob does not match them: with only dot
\* entries in R the mv has nothing to move and the command exits nonzero.
TrashCmdOk(rem, remExists) ==
  ~(remExists /\ DOMAIN rem # {} /\ Visible(rem) = {})

\* remote trash after the command ran to completion
TrashCmdTrash(rem, trash) == MergeInto(trash, Restrict(rem, Visible(rem)))

\* remote folder after the command ran to completion
TrashCmdRemote(rem) == Restrict(rem, (DOMAIN rem) \ Visible(rem))

\* _do_push, up to and including list(local.iterdir())  (gui.py:265-288)
PushPrepare ==
  /\ pc = "push"
  /\ UNCHANGED << local, localExists, ltrash, local_files, remote_files,
                  operation, snapvars, diffvars, extvars >>
  /\ IF ~localExists
     THEN /\ Finish(Outcome(FALSE, "LocalNotFound", NoName, 0, 0))
          /\ UNCHANGED << remote, remoteExists, rtrash, cmds, files, idx >>
     ELSE \E reached \in BOOLEAN :
            LET ok == reached /\ TrashCmdOk(remote, remoteExists) IN
            /\ cmds' = Append(cmds, Cmd("trash", NoName, ok, IF ok THEN "" ELSE "other"))
            /\ IF ok
               THEN /\ rtrash' = TrashCmdTrash(remote, rtrash)
                    /\ remote' = TrashCmdRemote(remote)
                    /\ remoteExists' = TRUE
               ELSE UNCHANGED << remote, remoteExists, rtrash >>
            /\ IF PrepareAborts(ok)
               THEN /\ Finish(Outcome(FALSE, "PrepareFailed", NoName, 0, 0))
                    /\ UNCHANGED << files, idx >>
               ELSE \E order \in Perms(DOMAIN local) :
                      /\ files' = order
                      /\ IF Len(order) = 0
                         THEN /\ Finish(Outcome(TRUE, "PushedEmpty", NoName, 0, 0))
                              /\ idx' = 0
                         ELSE /\ pc' = "push_copy"
                              /\ idx' = 1
                              /\ finished' = finished

\* one iteration of `for item in files` (gui.py:291-298)
PushCopy ==
  /\ pc = "push_copy"
  /\ idx \in 1..Len(files)
  /\ UNCHANGED << local, localExists, ltrash, rtrash, remoteExists, files,
                  local_files, remote_files, operation, snapvars, diffvars, extvars >>
  /\ LET item == files[idx] IN
     \E reached \in BOOLEAN :
       LET ok == reached /\ remoteExists IN
       /\ cmds' = Append(cmds, Cmd("scp_up", item, ok, IF ok THEN "" ELSE "other"))
       /\ remote' = IF ok THEN CopyInto(remote, item, local[item]) ELSE remote
       /\ IF PushCopyAborts(ok)
          THEN /\ Finish(Outcome(FALSE, "PushFailedOn", item, 0, 0))
               /\ idx' = idx
          ELSE IF idx = Len(files)
               THEN /\ Finish(Outcome(TRUE, "SyncedToMac", NoName, Len(files), 0))
                    /\ idx' = idx
               ELSE /\ idx' = NextIndex(idx)
                    /\ pc' = pc
                    /\ finished' = finished

\* ------------------------------------------------------------ Mirror Pull
\* f"{item.stem}_{i}{item.suffix}"  (gui.py:315)
Suffixed(item, i) == [item EXCEPT !.nums = Append(@, i)]

\* `while dest.exists(): dest = ...; i += 1`  (gui.py:313-316)
RECURSIVE Probe(_, _, _)
Probe(trash, item, i) ==
  IF Suffixed(item, i) \in DOMAIN trash
  THEN Probe(trash, item, i + 1)
  ELSE Suffixed(item, i)

TrashDestSameName(trash, item) == item

\* the path an entry is moved to inside the local trash (gui.py:310-316)
TrashDest(trash, item) ==
  IF item \in DOMAIN trash THEN Probe(trash, item, 1) ELSE item

\* `for item in local.iterdir(): ... shutil.move(item, dest)` (gui.py:309-317)
RECURSIVE MoveAll(_, _, _, _)
MoveAll(trash, dir, order, k) ==
  IF k > Len(order)
  THEN trash
  ELSE MoveAll(MergeInto(trash, [x \in {TrashDest(trash, order[k])} |-> dir[order[k]]]),
               dir, order, k + 1)

\* what is left of the local folder once shutil.move has taken every entry
\* (gui.py:317) and local.mkdir has run (gui.py:318)
LocalAfterMoveKept(dir) == dir

LocalAfterMove(dir) == EmptyDir

\* _do_pull, the local part (gui.py:300-318)
PullTrash ==
  /\ pc = "pull"
  /\ \E order \in Perms(DOMAIN local) :
       /\ ltrash' = MoveAll(ltrash, local, order, 1)
       /\ files' = order
  /\ local' = LocalAfterMove(local)
  /\ localExists' = TRUE
  /\ pc' = "pull_copy"
  /\ UNCHANGED << remote, remoteExists, rtrash, idx, local_files, remote_files,
                  operation, finished, cmds, snapvars, diffvars, extvars >>

\* stderr of a failed command, as far as _do_pull tells it apart
\* (gui.py:327): contains "No such file", is blank, or anything else
ErrKinds == { "nosuch", "blank", "other" }

\* gui.py:325-330
PullOutcome(ok, err) ==
  IF ok THEN Outcome(TRUE, "SyncedFromMac", NoName, 0, 0)
  ELSE IF err \in { "nosuch", "blank" }
       THEN Outcome(TRUE, "PulledEmpty", NoName, 0, 0)
       ELSE Outcome(FALSE, "PullFailed", NoName, 0, 0)

\* _do_pull, `scp -r user@host:R/* local`  (gui.py:320-330).  The one command
\* copies every matched entry; when it is cut short (the 600 s timeout, a
\* dropped connection, an entry that cannot be read) the entries in `part`
\* have arrived and the command has failed.
PullCopy ==
  /\ pc = "pull_copy"
  /\ UNCHANGED << localExists, remote, remoteExists, ltrash, rtrash, files, idx,
                  local_files, remote_files, operation, snapvars, diffvars, extvars >>
  /\ \E reached \in BOOLEAN, completed \in BOOLEAN, err \in ErrKinds :
       LET src == IF remoteExists THEN Restrict(remote, Visible(remote)) ELSE EmptyDir
           ok  == reached /\ DOMAIN src # {} /\ completed
       IN
       \E part \in SUBSET DOMAIN src :
         /\ ok => ( part = DOMAIN src /\ err = "blank" )
         /\ ~reached => part = {}
         \* a glob that matches nothing is reported by the remote side
         /\ ( reached /\ DOMAIN src = {} ) => err \in { "nosuch", "other" }
         /\ ( reached /\ DOMAIN src # {} /\ ~completed ) => part # DOMAIN src
         /\ cmds' = Append(cmds, Cmd("scp_down_all", NoName, ok, IF ok THEN "" ELSE err))
         /\ local' = MergeInto(local, Restrict(src, part))
         /\ Finish(PullOutcome(ok, err))

\* ---------------------------------------------------------- Two-Way Merge
\* gui.py:361-363 and gui.py:372-374  `if not ok: emit(False, ...); return`
SyncCopyAbortsNever(ok) == FALSE

SyncCopyAborts(ok) == ~ok

\* exit status of `ls -1 'R' 2>/dev/null || echo ''` once it runs on the
\* remote host (gui.py:343, 385): ls fails on a folder that does not exist
\* and the `echo` after `||` then gives status 0
\* (`2>/dev/null` keeps the error output of ls blank)
ListExitOkNoFallback(remExists) == remExists

ListExitOk(remExists) == remExists \/ TRUE

\* names parsed from the output of `ls -1 'R' 2>/dev/null || echo ''`
\* (gui.py:343-347): ls -1 prints the entries that do not begin with a dot
Listed(rem, remExists) == IF remExists THEN Visible(rem) ELSE {}

\* gui.py:376-380
SyncSummary(lf, rf) ==
  IF Cardinality(lf \ rf) + Cardinality(rf \ lf) = 0
  THEN Outcome(TRUE, "AlreadyInSync", NoName, 0, 0)
  ELSE Outcome(TRUE, "Synced", NoName, Cardinality(lf \ rf), Cardinality(rf \ lf))

\* _do_sync: local snapshot and remote listing (gui.py:332-347)
SyncList ==
  /\ pc = "sync"
  /\ localExists' = TRUE
  /\ local_files' = DOMAIN local
  /\ \E reached \in BOOLEAN :
       LET ok == reached /\ ListExitOk(remoteExists) IN
       /\ cmds' = Append(cmds, Cmd("ls", NoName, ok, IF reached THEN "" ELSE "other"))
       /\ remote_files' = IF ok THEN Listed(remote, remoteExists) ELSE {}
  /\ pc' = "sync_mkdir"
  /\ UNCHANGED << local, remote, remoteExists, ltrash, rtrash, files, idx,
                  operation, finished, snapvars, diffvars, extvars >>

\* start of the remote-to-local loop, or the final report (gui.py:365-380)
SyncEnterDown ==
  IF remote_files \ local_files # {}
  THEN /\ files' \in Perms(remote_files \ local_files)
       /\ idx' = 1
       /\ pc' = "sync_down"
       /\ finished' = finished
  ELSE /\ files' = <<>>
       /\ idx' = 0
       /\ Finish(SyncSummary(local_files, remote_files))

\* gui.py:358  `local_only = local_files - remote_files`
local_only_all(lf, rf) == lf

local_only(lf, rf) == lf \ rf

\* _do_sync: `mkdir -p 'R'`, its result ignored (gui.py:349-356)
SyncMkdir ==
  /\ pc = "sync_mkdir"
  /\ \E reached \in BOOLEAN :
       /\ cmds' = Append(cmds, Cmd("mkdir", NoName, reached, IF reached THEN "" ELSE "other"))
       /\ remoteExists' = (remoteExists \/ reached)
  /\ IF local_only(local_files, remote_files) # {}
     THEN /\ files' \in Perms(local_only(local_files, remote_files))
          /\ idx' = 1
          /\ pc' = "sync_up"
          /\ finished' = finished
     ELSE SyncEnterDown
  /\ UNCHANGED << local, localExists, remote, ltrash, rtrash, local_files,
                  remote_files, operation, snapvars, diffvars, extvars >>

\* one iteration of `for fname in local_only` (gui.py:357-363)
SyncUp ==
  /\ pc = "sync_up"
  /\ idx \in 1..Len(files)
  /\ UNCHANGED << local, localExists, remoteExists, ltrash, rtrash, local_files,
                  remote_files, operation, snapvars, diffvars, extvars >>
  /\ LET fname == files[idx] IN
     \E reached \in BOOLEAN :
       LET ok == reached /\ remoteExists IN
       /\ cmds' = Append(cmds, Cmd("scp_up", fname, ok, IF ok THEN "" ELSE "other"))
       /\ remote' = IF ok THEN CopyInto(remote, fname, local[fname]) ELSE remote
       /\ IF SyncCopyAborts(ok)
          THEN /\ Finish(Outcome(FALSE, "CopyToMacFailed", fname, 0, 0))
               /\ UNCHANGED << files, idx >>
          ELSE IF idx = Len(files)
               THEN SyncEnterDown
               ELSE /\ idx' = NextIndex(idx)
                    /\ UNCHANGED << files, pc, finished >>

\* one iteration of `for fname in remote_only` (gui.py:369-380)
SyncDown ==
  /\ pc = "sync_down"
  /\ idx \in 1..Len(files)
  /\ UNCHANGED << localExists, remote, remoteExists, ltrash, rtrash, local_files,
                  remote_files, files, operation, snapvars, diffvars, extvars >>
  /\ LET fname == files[idx] IN
     \E reached \in BOOLEAN :
       LET ok == reached /\ remoteExists /\ fname \in DOMAIN remote IN
       /\ cmds' = Append(cmds, Cmd("scp_down", fname, ok, IF ok THEN "" ELSE "other"))
       /\ local' = IF ok THEN CopyInto(local, fname, remote[fname]) ELSE local
       /\ IF SyncCopyAborts(ok)
          THEN /\ Finish(Outcome(FALSE, "CopyFromMacFailed", fname, 0, 0))
               /\ idx' = idx
          ELSE IF idx = Len(files)
               THEN /\ Finish(SyncSummary(local_files, remote_files))
                    /\ idx' = idx
               ELSE /\ idx' = NextIndex(idx)
                    /\ UNCHANGED << pc, finished >>

\* ------------------------------------------------- Connectivity, Bootstrap
\* a transport invocation whose captured output is looked at: `tok` tells
\* whether the expected sentinel token is in it
CmdOut(k, ok, tok, e) ==
  [kind |-> k, name |-> NoName, ok |-> ok, err |-> e, tok |-> tok]

\* gui.py:220  `if ok and "SSH_OK" in out`
TestSucceedsOnExit(ok, tok) == ok

TestSucceeds(ok, tok) == ok /\ tok

\* _do_test (gui.py:216-226)
TestRun ==
  /\ pc = "test"
  /\ \E ok \in BOOLEAN, tok \in BOOLEAN, err \in { "denied", "other" } :
       /\ cmds' = Append(cmds, CmdOut("echo", ok, tok, err))
       /\ IF TestSucceeds(ok, tok)
          THEN Finish(Outcome(TRUE, "Connected", NoName, 0, 0))
          ELSE IF err = "denied"
               THEN Finish(Outcome(FALSE, "NeedSetup", NoName, 0, 0))
               ELSE Finish(Outcome(FALSE, "ConnectionFailed", NoName, 0, 0))
  /\ UNCHANGED << fsvars, files, idx, local_files, remote_files, operation,
                  snapvars, diffvars, extvars >>

\* gui.py:237-239  `if not ok: emit(False, "Failed to generate key"); return`
KeygenFatalNever(ok) == FALSE

KeygenFatal(ok) == ~ok

\* _do_full_setup: ssh-keygen when the private key is absent (gui.py:229-239)
SetupKeygen ==
  /\ pc = "setup"
  /\ ~keyExists
  /\ \E ok \in BOOLEAN :
       /\ cmds' = Append(cmds, CmdOut("keygen", ok, FALSE, IF ok THEN "" ELSE "other"))
       /\ keyExists' = ok
       /\ pubExists' = (pubExists \/ ok)
       /\ IF KeygenFatal(ok)
          THEN Finish(Outcome(FALSE, "KeygenFailed", NoName, 0, 0))
          ELSE pc' = "setup_install" /\ finished' = finished
  /\ UNCHANGED << fsvars, files, idx, local_files, remote_files, operation,
                  snapvars, diffvars, sshDir, authorized_keys, file_list, appvars >>

\* number of lines of the file that are the public key
RECURSIVE KeyCount(_)
KeyCount(lines) ==
  IF lines = <<>> THEN 0
  ELSE (IF Head(lines) = "key" THEN 1 ELSE 0) + KeyCount(Tail(lines))

\* `grep -qxF 'KEY' ~/.ssh/authorized_keys 2>/dev/null`
GrepKey(lines) == KeyCount(lines) > 0

\* The remote command of gui.py:244-249.  `&&` and `||` associate to the
\* left with equal precedence, so it is evaluated as
\*   ((((mkdir && chmod700 && grep) || append) && chmod600) && echo SETUP_OK)
\* m, c7, a, c6 : whether mkdir, chmod 700, the append and chmod 600 succeed.
\* The append runs whenever the part before `||` fails.
InstallAppends(lines, dir, m, c7) ==
  ~( (dir \/ m) /\ c7 /\ GrepKey(lines) )

InstallLines(lines, dir, m, c7, a) ==
  IF InstallAppends(lines, dir, m, c7) /\ a /\ (dir \/ m)
  THEN Append(lines, "key")
  ELSE lines

InstallExitOk(lines, dir, m, c7, a, c6) ==
  /\ InstallAppends(lines, dir, m, c7) => (a /\ (dir \/ m))
  /\ c6

\* _do_full_setup: read the public key, install it (gui.py:241-263)
SetupInstall ==
  /\ \/ pc = "setup" /\ keyExists
     \/ pc = "setup_install"
  /\ UNCHANGED << fsvars, files, idx, local_files, remote_files, operation,
                  snapvars, diffvars, keyExists, pubExists, file_list, appvars >>
  /\ IF ~pubExists
     THEN \* pub_path.read_text() raises: the thread ends without an outcome
          /\ pc' = "crashed"
          /\ UNCHANGED << finished, cmds, sshDir, authorized_keys >>
     ELSE \E reached \in BOOLEAN, m \in BOOLEAN, c7 \in BOOLEAN,
             a \in BOOLEAN, c6 \in BOOLEAN :
            LET ok == reached /\ InstallExitOk(authorized_keys, sshDir, m, c7, a, c6) IN
            /\ cmds' = Append(cmds, CmdOut("install", ok, ok, IF ok THEN "" ELSE "other"))
            /\ sshDir' = (sshDir \/ (reached /\ m))
            /\ authorized_keys' =
                 IF reached THEN InstallLines(authorized_keys, sshDir, m, c7, a)
                 ELSE authorized_keys
            /\ IF ok
               THEN pc' = "setup_verify" /\ finished' = finished
               ELSE Finish(Outcome(FALSE, "InstallFailed", NoName, 0, 0))

\* gui.py:258  `if ok2 and "KEY_OK" in out2`
VerifySucceedsAlways(ok, tok) == TRUE

VerifySucceeds(ok, tok) == ok /\ tok

\* _do_full_setup: the passwordless check with the new key (gui.py:254-261)
SetupVerify ==
  /\ pc = "setup_verify"
  /\ \E ok \in BOOLEAN, tok \in BOOLEAN :
       /\ cmds' = Append(cmds, CmdOut("verify", ok, tok, IF ok THEN "" ELSE "other"))
       /\ IF VerifySucceeds(ok, tok)
          THEN Finish(Outcome(TRUE, "SetupComplete", NoName, 0, 0))
          ELSE Finish(Outcome(FALSE, "VerifyFailed", NoName, 0, 0))
  /\ UNCHANGED << fsvars, files, idx, local_files, remote_files, operation,
                  snapvars, diffvars, extvars >>

\* ----------------------------------------------------------- Remote listing
\* _do_list_remote (gui.py:382-393): the names go out on the file_list
\* signal, an empty list when the command failed
ListRemote ==
  /\ pc = "list_remote"
  /\ \E reached \in BOOLEAN :
       LET ok == reached /\ ListExitOk(remoteExists) IN
       /\ cmds' = Append(cmds, Cmd("ls", NoName, ok, IF reached THEN "" ELSE "other"))
       /\ file_list' = IF ok THEN Listed(remote, remoteExists) ELSE {}
       /\ IF ok
          THEN Finish(Outcome(TRUE, "", NoName, 0, 0))
          ELSE Finish(Outcome(FALSE, "ListFailed", NoName, 0, 0))
  /\ UNCHANGED << fsvars, files, idx, local_files, remote_files, operation,
                  snapvars, diffvars, setupvars, appvars >>

\* ------------------------------------------------------------ Profile store
\* A Profile is modelled by its key `name` and by `host`, which stands for
\* the fields that carry no identity (config.py:12-23).
ProfileNamePool == << "mac", "imac", "studio", "mini" >>

ProfileNames ==
  { ProfileNamePool[i] :
      i \in 1..(IF NumProfiles < Len(ProfileNamePool) THEN NumProfiles
                ELSE Len(ProfileNamePool)) }

Hosts == { "10.0.0.2", "10.0.0.3" }

Profile(n, h) == [name |-> n, host |-> h]

\* position of the first profile called `name`, 0 when there is none
\* (the loops of config.py:53-54 and 67-68)
RECURSIVE IndexFrom(_, _, _)
IndexFrom(ps, name, i) ==
  IF i > Len(ps) THEN 0
  ELSE IF ps[i].name = name THEN i
  ELSE IndexFrom(ps, name, i + 1)

\* config.py:52-57
upsert_profile_append(ps, prof) == Append(ps, prof)

upsert_profile(ps, prof) ==
  LET i == IndexFrom(ps, prof.name, 1) IN
  IF i # 0 THEN [ps EXCEPT ![i] = prof] ELSE Append(ps, prof)

\* config.py:60-63: the new list, and the returned flag
delete_profile(ps, name) ==
  LET kept == SelectSeq(ps, LAMBDA p : p.name # name) IN
  [profiles |-> kept, ret |-> Len(kept) # Len(ps)]

\* config.py:66-70; the result is <<>> for None, else << profile >>
get_profile(ps, name) ==
  LET i == IndexFrom(ps, name, 1) IN
  IF i = 0 THEN <<>> ELSE << ps[i] >>

Upsert ==
  /\ \E n \in ProfileNames, h \in Hosts :
       /\ profiles' = upsert_profile(profiles, Profile(n, h))
       /\ lastOp' = [op |-> "upsert", name |-> n, prof |-> Profile(n, h), ret |-> FALSE]
  /\ profiles0' = profiles
  /\ UNCHANGED << workervars, guivars, procvars >>

Delete ==
  /\ \E n \in ProfileNames :
       /\ profiles' = delete_profile(profiles, n).profiles
       /\ lastOp' = [op |-> "delete", name |-> n, prof |-> Profile("", ""),
                     ret |-> delete_profile(profiles, n).ret]
  /\ profiles0' = profiles
  /\ UNCHANGED << workervars, guivars, procvars >>

Get ==
  /\ \E n \in ProfileNames :
       LET r == get_profile(profiles, n) IN
       lastOp' = [op |-> "get", name |-> n,
                  prof |-> IF r = <<>> THEN Profile("", "") ELSE r[1],
                  ret |-> r # <<>>]
  /\ profiles0' = profiles
  /\ UNCHANGED << profiles, workervars, guivars, procvars >>

\* -------------------------------------------------------------- Main window
\* A worker thread is "running" while it executes its operation, "emitted"
\* once it has emitted `finished` (the signal is queued for the main thread,
\* the emitter being another thread) and "dead" when run() has returned.
Thread(op) == [op |-> op, st |-> "running"]

Running(g) == { i \in 1..Len(g.threads) : g.threads[i].st = "running" }

\* current_worker.is_alive()
IsAlive(g, i) == g.threads[i].st # "dead"

\* _set_busy (gui.py:619-632)
SetBusy(g, b) == [g EXCEPT !.busy = b, !.btn_setup = ~b /\ ~g.key_ok]

\* _update_status (gui.py:597-617)
UpdateStatus(g) ==
  [g EXCEPT !.btn_setup = IF g.key_ok THEN FALSE
                          ELSE IF g.ssh_ok THEN TRUE ELSE g.mac_ip]

\* gui.py:718  `if self.current_worker and self.current_worker.is_alive(): return`
Rejects(g) == g.current_worker # 0 /\ IsAlive(g, g.current_worker)

\* _run_worker (gui.py:717-734)
RunWorker(g, op) ==
  IF Rejects(g) THEN g
  ELSE [ SetBusy(g, TRUE) EXCEPT
           !.pending_operation = op,
           !.threads = Append(@, Thread(op)),
           !.current_worker = Len(g.threads) + 1 ]

\* _do_test of the window (gui.py:739-741)
DoTest(g) == IF g.mac_ip THEN RunWorker(g, "test") ELSE g

\* _refresh_remote (gui.py:916-923)
RefreshRemote(g) ==
  IF g.mac_ip /\ (g.ssh_ok \/ g.key_ok) THEN RunWorker(g, "list_remote") ELSE g

\* the checks that open _do_push, _do_pull and _do_sync_ui (gui.py:757-765)
Connected(g) == g.mac_ip /\ g.local_path /\ (g.key_ok \/ g.ssh_ok)

\* _do_auto_push (gui.py:972-980)
DoAutoPush(g) ==
  IF g.watching /\ g.current_worker = 0 /\ Connected(g)
  THEN RunWorker(g, "push")
  ELSE g

\* _on_worker_finished (gui.py:637-705); keyFile: the private key file exists
OnWorkerFinished(g, success, keyFile) ==
  LET op == g.pending_operation
      g1 == [ SetBusy(g, FALSE) EXCEPT !.current_worker = 0,
                                       !.pending_operation = "" ]
  IN
  CASE op = "scan" ->
         IF success THEN DoTest(UpdateStatus([g1 EXCEPT !.mac_ip = TRUE]))
         ELSE UpdateStatus(g1)
    [] op = "test" ->
         IF success
         THEN RefreshRemote(UpdateStatus(
                [g1 EXCEPT !.ssh_ok = TRUE, !.key_ok = (@ \/ keyFile)]))
         ELSE UpdateStatus([g1 EXCEPT !.ssh_ok = FALSE, !.key_ok = FALSE])
    [] op = "setup" ->
         IF success THEN RefreshRemote(UpdateStatus([g1 EXCEPT !.key_ok = TRUE]))
         ELSE g1
    [] op \in { "push", "sync" } ->
         IF success THEN RefreshRemote(g1) ELSE g1
    [] OTHER -> g1

\* every step of the window leaves the state of the worker operations, of
\* the folders and of the profile list alone
GuiStep(g) ==
  /\ gui' = g
  /\ Len(g.threads) <= MaxWorkers
  /\ UNCHANGED << workervars, storevars, procvars >>

\* QTimer.singleShot(500, ...) of __init__ (gui.py:437-441)
\* it fires half a second after construction, ahead of the user's requests
Startup ==
  /\ ~booted
  /\ booted' = TRUE
  /\ GuiStep(IF ~gui.mac_ip THEN RunWorker(gui, "scan") ELSE RefreshRemote(gui))
  /\ UNCHANGED events

\* the Push, Pull and Sync buttons, the preview accepted
\* (gui.py:756-860); the buttons are disabled while busy
UserTransfer ==
  /\ booted
  /\ ~gui.busy
  /\ Connected(gui)
  /\ \E op \in { "push", "pull", "sync" } : GuiStep(RunWorker(gui, op))
  /\ UNCHANGED << events, booted >>

\* the Setup button, confirmed (gui.py:743-754)
UserSetup ==
  /\ booted
  /\ gui.btn_setup
  /\ gui.mac_ip
  /\ GuiStep(RunWorker(gui, "setup"))
  /\ UNCHANGED << events, booted >>

\* the Rescan button (gui.py:473, 736-737)
UserRescan ==
  /\ booted
  /\ ~gui.busy
  /\ GuiStep(RunWorker(gui, "scan"))
  /\ UNCHANGED << events, booted >>

\* the remote refresh button (gui.py:523)
UserRefreshRemote ==
  /\ booted
  /\ ~gui.busy
  /\ GuiStep(RefreshRemote(gui))
  /\ UNCHANGED << events, booted >>

\* _edit_remote_path, saved (gui.py:872-889); its button is never disabled
EditRemotePath ==
  /\ booted
  /\ gui.mac_ip /\ (gui.ssh_ok \/ gui.key_ok)
  /\ GuiStep(RefreshRemote(gui))
  /\ UNCHANGED << events, booted >>

\* _browse_local, a folder chosen (gui.py:864-870)
BrowseLocal ==
  /\ booted
  /\ ~gui.local_path
  /\ GuiStep([gui EXCEPT !.local_path = TRUE])
  /\ UNCHANGED << events, booted >>

\* _toggle_watch (gui.py:943-965); stopping leaves the debounce timer alone
ToggleWatch ==
  /\ booted
  /\ IF gui.watching
     THEN GuiStep([gui EXCEPT !.watching = FALSE])
     ELSE gui.local_path /\ GuiStep([gui EXCEPT !.watching = TRUE])
  /\ UNCHANGED << events, booted >>

\* _on_watch_triggered (gui.py:967-970): a change of the watched folder
\* (re)starts the single-shot debounce timer
OnWatchTriggered ==
  /\ booted
  /\ gui.watching
  /\ GuiStep([gui EXCEPT !.timer = TRUE, !.armed_by = "outside"])
  /\ UNCHANGED << events, booted >>

\* a running Mirror Pull or Two-Way Merge writes into the watched folder
\* (shutil.move and scp of gui.py:309-322, scp of gui.py:371-372): the
\* watcher reports it like any other change and _on_watch_triggered
\* (gui.py:967-970) starts the timer.  `armed_by` records whether any change
\* since the timer was last idle came from outside; the code has no such
\* record.
WorkerChange ==
  /\ booted
  /\ gui.watching
  /\ \E i \in Running(gui) : gui.threads[i].op \in { "pull", "sync" }
  /\ GuiStep([gui EXCEPT !.timer = TRUE,
                         !.armed_by = IF @ = "outside" THEN "outside" ELSE "own"])
  /\ UNCHANGED << events, booted >>

\* the debounce timer expires: _do_auto_push (gui.py:972-980)
TimerFire ==
  /\ gui.timer
  /\ GuiStep(DoAutoPush([gui EXCEPT !.timer = FALSE, !.armed_by = "none"]))
  /\ UNCHANGED << events, booted >>

\* a worker ends its operation with signals.finished.emit(...); a Bootstrap
\* may have created the key file (gui.py:195-206, 232-236).  The signal
\* carries (success, message); `op` and `from` record which worker emitted
\* it and are read by no step of the window.
WorkerEmit ==
  \E i \in Running(gui), success \in BOOLEAN :
    /\ gui' = [gui EXCEPT !.threads[i].st = "emitted"]
    /\ events' = Append(events, [success |-> success, op |-> gui.threads[i].op,
                                 from |-> i])
    /\ keyExists' = (keyExists \/ (gui.threads[i].op = "setup" /\ success))
    /\ UNCHANGED << fsvars, workvars, snapvars, diffvars, pubExists, sshDir,
                    authorized_keys, file_list, storevars, procvars, booted >>

\* run() returns after the emit
WorkerExit ==
  \E i \in 1..Len(gui.threads) :
    /\ gui.threads[i].st = "emitted"
    /\ gui' = [gui EXCEPT !.threads[i].st = "dead"]
    /\ UNCHANGED << workervars, storevars, procvars, events, booted >>

\* the main thread handles the oldest queued `finished` signal
DeliverFinished ==
  /\ events # <<>>
  /\ GuiStep(OnWorkerFinished(gui, Head(events).success, keyExists))
  /\ events' = Tail(events)
  /\ UNCHANGED booted

\* ------------------------------------------------------- Profile store file
\* save_config writes the whole list, load_config reads it (config.py:35-49).
\* The window keeps the list it read when it was constructed
\* (gui.py:409-411); every CLI invocation reads the file first (cli.py:73).
GuiLoad ==
  /\ ~gui_loaded
  /\ gui_loaded' = TRUE
  /\ gui_cfg' = cfg_file
  /\ UNCHANGED << cfg_file, writer, lastWrite, writes >>
  /\ UNCHANGED << workervars, storevars, guivars, clivars >>

\* _save_profile (gui.py:929-941): upsert "default" into MainWindow.cfg and
\* write that list
GuiSaveProfile ==
  /\ gui_loaded
  /\ writes < MaxWrites
  /\ writes' = writes + 1
  /\ \E h \in Hosts :
       /\ gui_cfg' = upsert_profile(gui_cfg, Profile("default", h))
       /\ cfg_file' = upsert_profile(gui_cfg, Profile("default", h))
  /\ lastWrite' = [op |-> "upsert", name |-> "default"]
  /\ UNCHANGED << gui_loaded, writer >>
  /\ UNCHANGED << workervars, storevars, guivars, clivars >>

\* cli.py:69-73: the process starts and loads the file
CliLoad ==
  /\ writer.pc = "idle"
  /\ writes < MaxWrites
  /\ writes' = writes + 1
  /\ \E c \in { "profile-add", "profile-del" }, n \in ProfileNames, h \in Hosts :
       writer' = [pc |-> "loaded", cmd |-> c, name |-> n,
                  host |-> IF c = "profile-add" THEN h ELSE "", cfg |-> cfg_file]
  /\ UNCHANGED << cfg_file, gui_cfg, gui_loaded, lastWrite >>
  /\ UNCHANGED << workervars, storevars, guivars, clivars >>

\* cli.py:75-95: mutate the loaded list, save it, exit
CliSave ==
  /\ writer.pc = "loaded"
  /\ cfg_file' =
       IF writer.cmd = "profile-add"
       THEN upsert_profile(writer.cfg, Profile(writer.name, writer.host))
       ELSE delete_profile(writer.cfg, writer.name).profiles
  /\ lastWrite' = [op |-> IF writer.cmd = "profile-add" THEN "upsert" ELSE "delete",
                   name |-> writer.name]
  /\ writer' = NoWriter
  /\ UNCHANGED << gui_cfg, gui_loaded, writes >>
  /\ UNCHANGED << workervars, storevars, guivars, clivars >>

\* ---------------------------------------------------------------------- CLI
\* One invocation of cli.main for the commands that resolve a profile
\* (cli.py:106-142) and the core functions they call (core.py).
CliCmds == { "test", "keygen", "install-key", "push", "pull" }

\* exit statuses of ssh, scp and ssh-keygen
TransportCodes == { 0, 1, 255 }

CmdResult(rc, why) == [returncode |-> rc, why |-> why]

\* where main dispatches a command (cli.py:111-139)
CliPc(c) ==
  CASE c = "test" -> "cli_test"
    [] c = "keygen" -> "cli_keygen"
    [] c = "install-key" -> "cli_install"
    [] c = "push" -> "cli_push"
    [] c = "pull" -> "cli_pull"

\* main returns r.returncode and the process ends
CliDone(r) ==
  /\ result' = r
  /\ codes' = codes \cup { r }
  /\ pc' = "done"

\* an exception leaves core: the process ends with a traceback
CliRaise ==
  /\ pc' = "raised"
  /\ UNCHANGED << result, codes >>

\* the folder a recursive scp creates inside an existing destination is
\* named after its source
LocalBase == N("files", <<>>, "")

RemoteBase == N("exchange", <<>>, "")

\* cli.py:106  `getattr(args, "name", "")`: the keygen sub-parser defines no
\* --name (cli.py:44-46), every other command here requires one
ArgName(c, n) == IF c = "keygen" THEN "" ELSE n

\* cli.py:106-109, 123-128, 132-137: `found` - get_profile found the name
\* in the store; `local`, `remote` - the path is given or set in the
\* profile; `ensure` - Profile.ensure_remote_dir; `tools` - ssh, scp and
\* ssh-keygen are on PATH
CliMain ==
  /\ pc = "cli"
  /\ \E c \in CliCmds, n \in ProfileNames, lp \in BOOLEAN, rp \in BOOLEAN,
        ens \in BOOLEAN, tools \in BOOLEAN :
       LET found == get_profile(profiles, ArgName(c, n)) # <<>> IN
       \* a command is not given what it does not read
       /\ (c # "push") => ~ens
       /\ (c \notin { "push", "pull" }) => (~lp /\ ~rp)
       /\ cli_args' = [cmd |-> c, found |-> found, local |-> lp, remote |-> rp,
                       ensure |-> ens, tools |-> tools]
       /\ IF ~found
          THEN CliDone(CmdResult(2, "profile_not_found"))
          ELSE IF c \in { "push", "pull" } /\ (~lp \/ ~rp)
               THEN CliDone(CmdResult(2, "missing_path"))
               ELSE /\ pc' = CliPc(c)
                    /\ result' = NoResult
                    /\ codes' = codes
  /\ UNCHANGED << fsvars, operation, files, idx, local_files, remote_files,
                  finished, cmds, snapvars, diffvars, setupvars, file_list,
                  storevars, guivars, filevars >>

\* test_ssh (core.py:43-46): require_cmd raises when ssh is missing, _run
\* lets subprocess.TimeoutExpired through (timeout_s = 20)
CliTest ==
  /\ pc = "cli_test"
  /\ IF ~cli_args.tools
     THEN CliRaise /\ cmds' = cmds
     ELSE \E timeout \in BOOLEAN, rc \in TransportCodes :
            /\ cmds' = Append(cmds, Cmd("cli_echo", NoName, ~timeout /\ rc = 0,
                                        IF timeout THEN "timeout" ELSE "other"))
            /\ IF timeout THEN CliRaise ELSE CliDone(CmdResult(rc, "transport"))
  /\ UNCHANGED << fsvars, operation, files, idx, local_files, remote_files,
                  finished, snapvars, diffvars, setupvars, file_list,
                  storevars, guivars, filevars, cli_args >>

\* generate_keypair (core.py:91-96), no timeout
CliKeygen ==
  /\ pc = "cli_keygen"
  /\ IF ~cli_args.tools
     THEN CliRaise /\ UNCHANGED << cmds, keyExists, pubExists >>
     ELSE \E rc \in TransportCodes :
            /\ cmds' = Append(cmds, Cmd("cli_keygen", NoName, rc = 0, "other"))
            /\ keyExists' = (keyExists \/ rc = 0)
            /\ pubExists' = (pubExists \/ rc = 0)
            /\ CliDone(CmdResult(rc, "transport"))
  /\ UNCHANGED << fsvars, operation, files, idx, local_files, remote_files,
                  finished, snapvars, diffvars, sshDir, authorized_keys,
                  file_list, storevars, guivars, filevars, cli_args >>

\* The remote command of core.py:111-117,
\*   mkdir -p ~/.ssh && chmod 700 ~/.ssh && echo KEY >> file && chmod 600 file
\*     && echo KEY_INSTALLED
\* m, c7, a : whether mkdir, chmod 700 and the append succeed
CliInstallLines(lines, dir, m, c7, a) ==
  IF (dir \/ m) /\ c7 /\ a THEN Append(lines, "key") ELSE lines

\* install_pubkey (core.py:99-119), timeout_s = 60
CliInstall ==
  /\ pc = "cli_install"
  /\ UNCHANGED << fsvars, operation, files, idx, local_files, remote_files,
                  finished, snapvars, diffvars, keyExists, pubExists,
                  file_list, storevars, guivars, filevars, cli_args >>
  /\ IF ~cli_args.tools
     THEN CliRaise /\ UNCHANGED << cmds, sshDir, authorized_keys >>
     ELSE IF ~pubExists
     THEN /\ CliDone(CmdResult(2, "pubkey_not_found"))
          /\ UNCHANGED << cmds, sshDir, authorized_keys >>
     ELSE \E reached \in BOOLEAN, timeout \in BOOLEAN, m \in BOOLEAN,
             c7 \in BOOLEAN, a \in BOOLEAN, c6 \in BOOLEAN :
            LET all == reached /\ (sshDir \/ m) /\ c7 /\ a /\ c6 IN
            /\ cmds' = Append(cmds, Cmd("cli_install", NoName, ~timeout /\ all,
                                        IF timeout THEN "timeout" ELSE "other"))
            /\ sshDir' = (sshDir \/ (reached /\ m))
            /\ authorized_keys' =
                 IF reached THEN CliInstallLines(authorized_keys, sshDir, m, c7, a)
                 ELSE authorized_keys
            /\ IF timeout THEN CliRaise
               ELSE CliDone(CmdResult(IF all THEN 0 ELSE IF reached THEN 1 ELSE 255,
                                      "transport"))

\* push, its first half (core.py:63-67): require_cmd, then ensure_remote_dir
\* (core.py:49-54, timeout_s = 30) whose CmdResult is dropped
CliPushEnsure ==
  /\ pc = "cli_push"
  /\ UNCHANGED << local, localExists, remote, ltrash, rtrash, operation, files,
                  idx, local_files, remote_files, finished, snapvars, diffvars,
                  setupvars, file_list, storevars, guivars, filevars, cli_args >>
  /\ IF ~cli_args.tools
     THEN CliRaise /\ UNCHANGED << cmds, remoteExists >>
     ELSE IF ~cli_args.ensure
     THEN /\ pc' = "cli_push_copy"
          /\ UNCHANGED << cmds, remoteExists, result, codes >>
     ELSE \E ok \in BOOLEAN, timeout \in BOOLEAN :
            /\ cmds' = Append(cmds, Cmd("cli_mkdir", NoName, ~timeout /\ ok,
                                        IF timeout THEN "timeout" ELSE "other"))
            /\ remoteExists' = (remoteExists \/ ok)
            /\ IF timeout THEN CliRaise
               ELSE /\ pc' = "cli_push_copy"
                    /\ UNCHANGED << result, codes >>

\* push, its second half (core.py:69-74)
CliPushCopy ==
  /\ pc = "cli_push_copy"
  /\ UNCHANGED << local, localExists, ltrash, rtrash, operation, files,
                  idx, local_files, remote_files, finished, snapvars, diffvars,
                  setupvars, file_list, storevars, guivars, filevars, cli_args >>
  /\ IF ~localExists
     THEN /\ CliDone(CmdResult(2, "local_not_found"))
          /\ UNCHANGED << cmds, remote, remoteExists >>
     ELSE \E rc \in TransportCodes :
            /\ cmds' = Append(cmds, Cmd("cli_scp_up", NoName, rc = 0, "other"))
            /\ remoteExists' = (remoteExists \/ rc = 0)
            /\ remote' = IF rc # 0 THEN remote
                         ELSE IF remoteExists
                              THEN MergeInto(remote, [x \in { LocalBase } |-> "L"])
                              ELSE local
            /\ CliDone(CmdResult(rc, "transport"))

\* pull (core.py:77-88): the local destination is created, then one scp
CliPull ==
  /\ pc = "cli_pull"
  /\ UNCHANGED << remote, remoteExists, ltrash, rtrash, operation, files,
                  idx, local_files, remote_files, finished, snapvars, diffvars,
                  setupvars, file_list, storevars, guivars, filevars, cli_args >>
  /\ IF ~cli_args.tools
     THEN CliRaise /\ UNCHANGED << cmds, local, localExists >>
     ELSE \E rc \in TransportCodes :
            /\ (rc = 0) => remoteExists
            /\ cmds' = Append(cmds, Cmd("cli_scp_down", NoName, rc = 0, "other"))
            /\ localExists' = TRUE
            /\ local' = IF rc = 0 THEN MergeInto(local, [x \in { RemoteBase } |-> "R"])
                        ELSE local
            /\ CliDone(CmdResult(rc, "transport"))

\* ---------------------------------------------------------- specifications
StartPush == Start("push")

StartPull == Start("pull")

StartSync == Start("sync")

Next ==
  \/ StartPush
  \/ StartPull
  \/ StartSync
  \/ PushPrepare
  \/ PushCopy
  \/ PullTrash
  \/ PullCopy
  \/ SyncList
  \/ SyncMkdir
  \/ SyncUp
  \/ SyncDown

Spec == Init /\ [][Next]_vars

\* one strategy invocation, the worker thread always scheduled again and
\* every transport call returning or timing out (gui.py:169 passes `timeout`
\* to subprocess.run)
StartOnce == pc = "idle" /\ ( StartPush \/ StartPull \/ StartSync )

WorkerStep ==
  \/ PushPrepare
  \/ PushCopy
  \/ PullTrash
  \/ PullCopy
  \/ SyncList
  \/ SyncMkdir
  \/ SyncUp
  \/ SyncDown

NextOnce == StartOnce \/ WorkerStep

SpecOnce == Init /\ [][NextOnce]_vars /\ WF_vars(WorkerStep)

\* Mirror Pull run repeatedly
NextPull == StartPull \/ PullTrash \/ PullCopy

SpecPull == InitPull /\ [][NextPull]_vars

NextDiff == DiffPreviewDialog \/ DiffClose

SpecDiff == InitDiff /\ [][NextDiff]_vars

\* remote listing refresh and Two-Way Merge run repeatedly
StartList == Start("list_remote")

NextList ==
  \/ StartList
  \/ ListRemote
  \/ StartSync
  \/ SyncList
  \/ SyncMkdir
  \/ SyncUp
  \/ SyncDown

SpecList == Init /\ [][NextList]_vars

\* the profile store, starting empty
InitStore ==
  /\ localExists = FALSE /\ local = EmptyDir
  /\ remoteExists = FALSE /\ remote = EmptyDir
  /\ ltrash = EmptyDir /\ rtrash = EmptyDir
  /\ InitWork
  /\ InitSnap
  /\ diffS = {} /\ diffD = {} /\ diffOut = NoDiff
  /\ NoExt

NextStore == Upsert \/ Delete \/ Get

SpecStore == InitStore /\ [][NextStore]_vars

\* the window with its workers; the stored profile may name a host and a
\* local folder
InitGui ==
  /\ localExists = FALSE /\ local = EmptyDir
  /\ remoteExists = FALSE /\ remote = EmptyDir
  /\ ltrash = EmptyDir /\ rtrash = EmptyDir
  /\ InitWork
  /\ InitSnap
  /\ diffS = {} /\ diffD = {} /\ diffOut = NoDiff
  /\ keyExists \in BOOLEAN
  /\ pubExists = keyExists /\ sshDir = FALSE /\ authorized_keys = <<>>
  /\ NoList
  /\ NoStore
  /\ \E ip \in BOOLEAN, lp \in BOOLEAN : gui = NewWindow(ip, lp)
  /\ events = <<>>
  /\ booted = FALSE
  /\ NoProc

NextGui ==
  \/ Startup
  \/ UserTransfer
  \/ UserSetup
  \/ UserRescan
  \/ UserRefreshRemote
  \/ EditRemotePath
  \/ BrowseLocal
  \/ ToggleWatch
  \/ OnWatchTriggered
  \/ WorkerChange
  \/ TimerFire
  \/ WorkerEmit
  \/ WorkerExit
  \/ DeliverFinished

SpecGui == InitGui /\ [][NextGui]_vars

\* the window and a CLI process writing the same config.json
InitFile ==
  /\ localExists = FALSE /\ local = EmptyDir
  /\ remoteExists = FALSE /\ remote = EmptyDir
  /\ ltrash = EmptyDir /\ rtrash = EmptyDir
  /\ InitWork
  /\ InitSnap
  /\ diffS = {} /\ diffD = {} /\ diffOut = NoDiff
  /\ NoExt

NextFile == GuiLoad \/ GuiSaveProfile \/ CliLoad \/ CliSave

SpecFile == InitFile /\ [][NextFile]_vars

\* CLI invocations, and Mirror Push of the worker, on a local folder that may
\* be missing
\* what load_config (cli.py:73, config.py:35-43) may find: no profile, one
\* profile under its name, or one saved by `profile-add --name ""`, which
\* neither argparse (cli.py:27) nor upsert_profile (config.py:52-57) refuses
CliStores ==
  { <<>>,
    << Profile(ProfileNamePool[1], "10.0.0.2") >>,
    << Profile("", "10.0.0.2") >> }

InitCli ==
  /\ localExists \in BOOLEAN /\ local = EmptyDir
  /\ remoteExists \in BOOLEAN /\ remote = EmptyDir
  /\ ltrash = EmptyDir /\ rtrash = EmptyDir
  /\ InitWork
  /\ InitSnap
  /\ diffS = {} /\ diffD = {} /\ diffOut = NoDiff
  /\ keyExists \in BOOLEAN
  /\ pubExists \in BOOLEAN
  /\ sshDir \in BOOLEAN
  /\ authorized_keys \in (IF sshDir THEN { <<>>, << "other" >> } ELSE { <<>> })
  /\ NoList
  /\ profiles \in CliStores /\ profiles0 = <<>> /\ lastOp = NoOp
  /\ NoGui
  /\ NoProc

StartCli == Start("cli")

NextCli ==
  \/ StartCli
  \/ CliMain
  \/ CliTest
  \/ CliKeygen
  \/ CliInstall
  \/ CliPushEnsure
  \/ CliPushCopy
  \/ CliPull
  \/ StartPush
  \/ PushPrepare
  \/ PushCopy

SpecCli == InitCli /\ [][NextCli]_vars

\* ------------------------------------------------------------------ claims
AllOk == \A i \in 1..Len(cmds) : cmds[i].ok

CopiedUp   == { cmds[i].name : i \in { j \in 1..Len(cmds) : cmds[j].kind = "scp_up" /\ cmds[j].ok } }

CopiedDown == { cmds[i].name : i \in { j \in 1..Len(cmds) : cmds[j].kind = "scp_down" /\ cmds[j].ok } }

\* C1: the previewed diff of source S and destination D is
\* (S \ D, D \ S, S /\ D); the three sets are pairwise disjoint and cover
\* S \/ D; diff(S,S) = ({},{},S), diff(S,{}) = (S,{},{}), diff({},D) = ({},D,{}).
C1_DiffPartition ==
  diffOut.done =>
    /\ diffOut.to_add = { x \in diffS : x \notin diffD }
    /\ diffOut.to_delete = { x \in diffD : x \notin diffS }
    /\ diffOut.to_overwrite = { x \in diffS : x \in diffD }
    /\ diffOut.to_add \cap diffOut.to_delete = {}
    /\ diffOut.to_add \cap diffOut.to_overwrite = {}
    /\ diffOut.to_delete \cap diffOut.to_overwrite = {}
    /\ diffOut.to_add \cup diffOut.to_delete \cup diffOut.to_overwrite = diffS \cup diffD
    /\ (diffS = diffD =>
          /\ diffOut.to_add = {} /\ diffOut.to_delete = {}
          /\ diffOut.to_overwrite = diffS)
    /\ (diffD = {} =>
          /\ diffOut.to_add = diffS /\ diffOut.to_delete = {}
          /\ diffOut.to_overwrite = {})
    /\ (diffS = {} =>
          /\ diffOut.to_add = {} /\ diffOut.to_delete = diffD
          /\ diffOut.to_overwrite = {})

C1_Witness ==
  /\ diffOut.done
  /\ diffOut.to_add # {}
  /\ diffOut.to_delete # {}
  /\ diffOut.to_overwrite # {}

\* C2: in a Two-Way Merge no entry whose name is on both sides when the
\* merge starts is copied in either direction, and such entries keep their
\* contents on both sides.
C2_CommonUntouched ==
  operation = "sync" =>
    \A nm \in (DOMAIN local0) \cap (DOMAIN remote0) :
      /\ nm \notin CopiedUp \cup CopiedDown
      /\ nm \in DOMAIN local /\ local[nm] = local0[nm]
      /\ nm \in DOMAIN remote /\ remote[nm] = remote0[nm]

\* C3: a Two-Way Merge that directly follows a successful Two-Way Merge
\* (every transport call of both runs succeeding, nothing else touching the
\* folders) reports "already in sync" and copies nothing.
C3_SecondMergeInSync ==
  ( operation = "sync" /\ pc = "done" /\ AllOk /\ prev )
  => /\ finished = Outcome(TRUE, "AlreadyInSync", NoName, 0, 0)
     /\ \A i \in 1..Len(cmds) : cmds[i].kind \notin { "scp_up", "scp_down" }

\* C4: a Two-Way Merge of local names L and remote names R in which every
\* transport call succeeds copies exactly L \ R up and exactly R \ L down,
\* leaves L \/ R on both sides and reports |L \ R| and |R \ L|.
C4_MergeIsUnion ==
  ( operation = "sync" /\ pc = "done" /\ AllOk ) =>
    LET L == DOMAIN local0
        R == DOMAIN remote0
    IN /\ CopiedUp = L \ R
       /\ CopiedDown = R \ L
       /\ DOMAIN local = L \cup R
       /\ DOMAIN remote = L \cup R
       /\ finished = SyncSummary(L, R)

\* C5: at every point of a Two-Way Merge, aborted runs included, each side
\* still holds every name it held when the merge started.
C5_MergeNeverRemoves ==
  operation = "sync" =>
    /\ DOMAIN local0 \subseteq DOMAIN local
    /\ DOMAIN remote0 \subseteq DOMAIN remote

C5_Witness ==
  /\ operation = "sync" /\ pc = "done"
  /\ ~finished.success
  /\ CopiedUp # {}
  /\ DOMAIN remote0 # {}
  /\ DOMAIN local0 # {}

\* C6: in Mirror Push the k-th copy is of the k-th listed entry; if it fails
\* the push ends at once with a failure naming that entry, no later entry is
\* attempted, and the k-1 entries copied before it are on the remote.
C6_PushAbortsOnFirstFailure ==
  operation = "push" =>
    \A j \in 2..Len(cmds) :
      /\ cmds[j].kind = "scp_up"
      /\ cmds[j].name = files[j - 1]
      /\ ~cmds[j].ok =>
           /\ j = Len(cmds)
           /\ pc = "done"
           /\ finished = Outcome(FALSE, "PushFailedOn", files[j - 1], 0, 0)
           /\ \A i \in 1..(j - 2) :
                /\ files[i] \in DOMAIN remote
                /\ remote[files[i]] = local[files[i]]

C6_Witness ==
  /\ operation = "push" /\ pc = "done"
  /\ Len(files) = 3
  /\ Len(cmds) = 3
  /\ ~cmds[3].ok
  /\ files[1] \in DOMAIN remote
  /\ files[3] \notin DOMAIN remote

\* C7: once the trash-then-recreate step of a Mirror Push has succeeded,
\* every entry the remote folder held before the push is in the remote
\* trash, also when the copy phase fails partway.
C7_OldRemoteInTrash ==
  ( operation = "push" /\ Len(cmds) >= 1 /\ cmds[1].ok ) =>
    \A nm \in DOMAIN remote0 :
      /\ nm \in DOMAIN rtrash
      /\ rtrash[nm] = remote0[nm]

\* C8: if the remote trash-and-recreate command of a Mirror Push fails, the
\* push reports failure and no copy command is issued.
C8_PrepareFailureAborts ==
  ( operation = "push" /\ Len(cmds) >= 1 /\ ~cmds[1].ok ) =>
    /\ pc = "done"
    /\ finished = Outcome(FALSE, "PrepareFailed", NoName, 0, 0)
    /\ Len(cmds) = 1
    /\ remote = remote0

C8_Witness ==
  /\ operation = "push" /\ pc = "done"
  /\ Len(cmds) = 1 /\ ~cmds[1].ok
  /\ DOMAIN local # {}
  /\ DOMAIN remote0 # {}

\* C9: after a successful Mirror Push the remote folder has the same names
\* as the local one, and after a successful Mirror Pull the local folder
\* has the same names as the remote one.
C9_MirrorMatches ==
  ( pc = "done" /\ finished.success /\ operation \in { "push", "pull" } ) =>
    DOMAIN local = DOMAIN remote

\* C10: Mirror Pull keeps every entry of the local trash, name and content;
\* each displaced entry is stored under a name that was free, its own name
\* or, on a collision, its name with the first unused numeric suffix.
C10_TrashNeverOverwritten ==
  operation = "pull" =>
    /\ \A nm \in DOMAIN ltrash0 :
         nm \in DOMAIN ltrash /\ ltrash[nm] = ltrash0[nm]
    /\ pc # "pull" =>
         /\ Cardinality(DOMAIN ltrash)
              = Cardinality(DOMAIN ltrash0) + Cardinality(DOMAIN local0)
         /\ \A nm \in DOMAIN local0 :
              \E dest \in (DOMAIN ltrash) \ (DOMAIN ltrash0) :
                /\ ltrash[dest] = local0[nm]
                /\ \/ dest = nm
                   \/ \E i \in 1..Cardinality(DOMAIN ltrash) :
                        /\ dest = Suffixed(nm, i)
                        /\ nm \in DOMAIN ltrash
                        /\ \A j \in 1..(i - 1) : Suffixed(nm, j) \in DOMAIN ltrash

\* two pulls in a row of a folder holding a.txt: both copies are in the trash
C10_Witness ==
  /\ operation = "pull" /\ pc = "done"
  /\ runs = 2
  /\ NamePool[1] \in DOMAIN local0
  /\ NamePool[1] \in DOMAIN ltrash0
  /\ Suffixed(NamePool[1], 1) \notin DOMAIN ltrash0
  /\ Suffixed(NamePool[1], 1) \in DOMAIN ltrash
  /\ ltrash[NamePool[1]] = "L"
  /\ ltrash[Suffixed(NamePool[1], 1)] = "R"

\* C11: Mirror Pull reports the "remote folder empty" success only when the
\* remote folder has no entries; any other failed bulk copy is reported as
\* a failure.
C11_EmptyOnlyWhenEmpty ==
  ( operation = "pull" /\ pc = "done" ) =>
    /\ finished.msg = "PulledEmpty" => DOMAIN remote = {}
    /\ ( ~cmds[1].ok /\ DOMAIN remote # {} ) =>
         finished = Outcome(FALSE, "PullFailed", NoName, 0, 0)

\* Connectivity Test and Bootstrap run repeatedly against one remote account
InitSetup ==
  /\ localExists = FALSE /\ local = EmptyDir
  /\ remoteExists = FALSE /\ remote = EmptyDir
  /\ ltrash = EmptyDir /\ rtrash = EmptyDir
  /\ InitWork
  /\ InitSnap
  /\ diffS = {} /\ diffD = {} /\ diffOut = NoDiff
  /\ keyExists \in BOOLEAN
  /\ pubExists \in BOOLEAN
  /\ sshDir \in BOOLEAN
  /\ authorized_keys \in
       (IF sshDir THEN { <<>>, << "other" >>, << "key" >>, << "other", "key" >> }
        ELSE { <<>> })
  /\ NoList
  /\ NoApp

StartTest == Start("test")

StartSetup == Start("setup")

NextSetup ==
  \/ StartTest
  \/ StartSetup
  \/ TestRun
  \/ SetupKeygen
  \/ SetupInstall
  \/ SetupVerify

SpecSetup == InitSetup /\ [][NextSetup]_vars

\* the commands of the current run of a given kind
CmdsOf(k) == { i \in 1..Len(cmds) : cmds[i].kind = k }

\* C12: Bootstrap reports success exactly when the final passwordless check
\* succeeded (exit 0 and its token seen); when the key was installed but the
\* check failed, the outcome is the verification failure.
C12_SetupSuccessIffVerified ==
  ( operation = "setup" /\ pc = "done" ) =>
    /\ finished.success <=>
         \E i \in CmdsOf("verify") : i = Len(cmds) /\ cmds[i].ok /\ cmds[i].tok
    /\ ( /\ \E i \in CmdsOf("install") : cmds[i].ok
         /\ \E i \in CmdsOf("verify") : ~(cmds[i].ok /\ cmds[i].tok) ) =>
         finished = Outcome(FALSE, "VerifyFailed", NoName, 0, 0)

C12_Witness ==
  /\ operation = "setup" /\ pc = "done"
  /\ \E i \in CmdsOf("install") : cmds[i].ok
  /\ \E i \in CmdsOf("verify") : cmds[i].ok /\ ~cmds[i].tok
  /\ finished.msg = "VerifyFailed"

\* C13: whatever the directory-creation and permission sub-steps of the
\* install command do, the authorized-keys file holds the public key at most
\* once.
C13_KeyAtMostOnce == KeyCount(authorized_keys) <= 1

\* C14: Connectivity Test issues its command exactly once and reports
\* success exactly when the command exited 0 and the token was in its output.
C14_TestOnceAndExact ==
  ( operation = "test" ) =>
    /\ Len(cmds) <= 1
    /\ pc = "done" =>
         /\ Len(cmds) = 1
         /\ cmds[1].kind = "echo"
         /\ finished.success <=> ( cmds[1].ok /\ cmds[1].tok )

C14_Witness ==
  /\ operation = "test" /\ pc = "done"
  /\ Len(cmds) = 1 /\ cmds[1].ok /\ ~cmds[1].tok
  /\ ~finished.success

\* C17: nothing is retried.  Within one run no transport command is issued
\* twice (same step, same entry), so in particular no command follows a
\* failed attempt of itself.
C17_NoRetry ==
  \A i \in 1..Len(cmds), j \in 1..Len(cmds) :
    ( i < j ) => ~( cmds[i].kind = cmds[j].kind /\ cmds[i].name = cmds[j].name )

C17_Witness ==
  /\ pc = "done"
  /\ Len(cmds) >= 3
  /\ ~cmds[Len(cmds)].ok
  /\ ~finished.success

\* C18: listing a remote folder that does not exist gives the empty name set
\* and a successful outcome: the listing refresh finishes with success and an
\* empty list, and Two-Way Merge takes the remote as empty.
C18_MissingRemoteListsEmpty ==
  /\ ( operation = "list_remote" /\ pc = "done" /\ ~remoteExists /\ cmds[1].err = "" ) =>
       ( finished.success /\ file_list = {} /\ cmds[1].ok )
  /\ ( operation = "sync" /\ pc = "sync_mkdir" /\ ~remoteExists /\ cmds[1].err = "" ) =>
       ( cmds[1].ok /\ remote_files = {} )

C18_Witness ==
  /\ operation = "list_remote" /\ pc = "done" /\ ~remoteExists
  /\ cmds[1].ok /\ finished.success /\ file_list = {}

\* C19: a remote listing command that exits nonzero or times out is a
\* listing failure, not an empty folder: Two-Way Merge issues no further
\* command and does not end in success, and the listing refresh reports
\* failure.
C19_ListFailureStops ==
  /\ ( operation = "sync" /\ Len(cmds) >= 1 /\ ~cmds[1].ok ) =>
       ( Len(cmds) = 1 /\ ( pc = "done" => ~finished.success ) )
  /\ ( operation = "list_remote" /\ pc = "done" /\ ~cmds[1].ok ) =>
       ~finished.success

NamesOf(ps) == { ps[i].name : i \in 1..Len(ps) }

\* C20: from the empty store, after any upserts and deletes the names are
\* unique; an upsert of an existing name replaces that profile where it
\* stands and changes no other, an upsert of a new name adds exactly that
\* one profile, a delete removes exactly the named profile and returns true
\* exactly when it was there.
C20_StoreKeyedByName ==
  /\ \A i, j \in 1..Len(profiles) : i # j => profiles[i].name # profiles[j].name
  /\ ( lastOp.op = "upsert" /\ lastOp.name \in NamesOf(profiles0) ) =>
       /\ Len(profiles) = Len(profiles0)
       /\ \A i \in 1..Len(profiles0) :
            profiles[i] = IF profiles0[i].name = lastOp.name THEN lastOp.prof
                          ELSE profiles0[i]
  /\ ( lastOp.op = "upsert" /\ lastOp.name \notin NamesOf(profiles0) ) =>
       /\ Len(profiles) = Len(profiles0) + 1
       /\ \A i \in 1..Len(profiles0) : profiles[i] = profiles0[i]
       /\ profiles[Len(profiles)] = lastOp.prof
  /\ ( lastOp.op = "delete" ) =>
       /\ lastOp.ret <=> ( lastOp.name \in NamesOf(profiles0) )
       /\ NamesOf(profiles) = NamesOf(profiles0) \ { lastOp.name }
       /\ Len(profiles) = Len(profiles0) - (IF lastOp.ret THEN 1 ELSE 0)
       /\ \A i \in 1..Len(profiles) :
            \E k \in 1..Len(profiles0) : profiles[i] = profiles0[k]

C20_Witness ==
  /\ lastOp.op = "upsert"
  /\ Len(profiles0) = NumProfiles
  /\ lastOp.name = profiles0[1].name
  /\ profiles[1] # profiles0[1]
  /\ Len(profiles) = NumProfiles

\* C15: at most one worker operation is executing at any time, whatever the
\* order of user requests, chained requests, auto-push timer firings, thread
\* terminations and deliveries of completion events.
C15_OneWorkerAtATime == Cardinality(Running(gui)) <= 1

\* C16: while watching, change notifications only (re)start the debounce
\* timer and start nothing themselves; the one auto-push request is made
\* when the timer expires, and it is dropped when an operation is active.
C16_DebouncedAutoPush ==
  [][ /\ ( ~gui.timer /\ gui'.timer ) => gui'.threads = gui.threads
      /\ ( gui.timer /\ ~gui'.timer ) =>
           /\ Len(gui'.threads) <= Len(gui.threads) + 1
           /\ ( Running(gui) # {} => gui'.threads = gui.threads )
    ]_vars

\* C21: every saved profile mutation leaves the profiles of every other name
\* that are in the file at that moment in the file, unchanged.
C21_NoClobber ==
  [][ \A i \in 1..Len(cfg_file) :
        ( cfg_file[i].name # lastWrite'.name ) =>
          \E j \in 1..Len(cfg_file') : cfg_file'[j] = cfg_file[i]
    ]_vars

\* C22: the CLI returns one code for "profile not found", another for
\* "missing required path", and neither is a code that a transport command
\* passes through.
C22_DistinctReturnCodes ==
  \A x \in codes, y \in codes :
    /\ ( x.why = "profile_not_found" /\ y.why = "missing_path" ) =>
         x.returncode # y.returncode
    /\ ( x.why \in { "profile_not_found", "missing_path" } /\ y.why = "transport" ) =>
         x.returncode # y.returncode

\* C23: a push whose local source folder does not exist ends with the
\* path-not-found outcome and has issued no transport command, in the worker
\* (_do_push) and in the CLI (core.push).
C23_PathNotFoundBeforeTransport ==
  /\ ( operation = "push" /\ pc = "done" /\ finished.msg = "LocalNotFound" ) =>
       cmds = <<>>
  /\ ( operation = "cli" /\ pc = "done" /\ result.why = "local_not_found" ) =>
       cmds = <<>>

\* C24: a transport invocation never raises: a timeout and a missing program
\* come back as a failed result, so a CLI invocation always ends by returning
\* a CmdResult.
C24_TransportNeverRaises == pc # "raised"

\* C29: in the CLI push with ensure_remote_dir set, a failed directory
\* preparation means that the copy command is not issued.
C29_FailedPrepareStopsPush ==
  ( operation = "cli" /\ \E i \in CmdsOf("cli_mkdir") : ~cmds[i].ok ) =>
    CmdsOf("cli_scp_up") = {}

\* C30: however often the CLI key-install runs with the same key, the
\* authorized-keys file holds that key exactly once after a successful run.
C30_InstallIdempotent ==
  ( operation = "cli" /\ pc = "done" /\ cli_args.cmd = "install-key"
      /\ result = CmdResult(0, "transport") ) =>
    KeyCount(authorized_keys) = 1

\* C25: a worker operation that has ended has delivered its terminal
\* outcome; none ends without one.
C25_EveryOperationDelivers ==
  ( pc \in { "done", "crashed" } ) => finished # NoOutcome

\* every entry the local folder held when the run began is in the local
\* trash, next to everything the trash held before
PriorInTrash ==
  /\ Cardinality(DOMAIN ltrash)
       = Cardinality(DOMAIN ltrash0) + Cardinality(DOMAIN local0)
  /\ \A nm \in DOMAIN local0 :
       \E dest \in (DOMAIN ltrash) \ (DOMAIN ltrash0) : ltrash[dest] = local0[nm]

\* C26 as stated: Mirror Pull trashes every local entry and recreates the
\* folder before it issues the copy, and after a failed copy the local folder
\* exists, is empty, and all its prior entries are in the trash.
C26_FailedPullLeavesEmpty ==
  operation = "pull" =>
    /\ pc = "pull" => cmds = <<>>
    /\ pc = "pull_copy" =>
         ( cmds = <<>> /\ localExists /\ local = EmptyDir /\ PriorInTrash )
    /\ ( pc = "done" /\ ~cmds[1].ok ) =>
         ( localExists /\ local = EmptyDir /\ PriorInTrash )

\* C26, amended: Mirror Pull trashes every local entry and recreates the
\* folder before it issues the copy; after a failed copy the local folder
\* exists, all its prior entries are in the trash, and it holds nothing but
\* the remote entries that the interrupted copy delivered.
C26_PullTrashesBeforeCopy ==
  operation = "pull" =>
    /\ pc = "pull" => cmds = <<>>
    /\ pc = "pull_copy" =>
         ( cmds = <<>> /\ localExists /\ local = EmptyDir /\ PriorInTrash )
    /\ ( pc = "done" /\ ~cmds[1].ok ) =>
         /\ localExists
         /\ PriorInTrash
         /\ DOMAIN local \subseteq Visible(remote)
         /\ \A nm \in DOMAIN local : local[nm] = remote[nm]

\* a failed copy that had delivered an entry into the emptied folder
C26_Witness ==
  /\ operation = "pull" /\ pc = "done"
  /\ ~cmds[1].ok
  /\ DOMAIN local0 # {}
  /\ DOMAIN local # {}
  /\ PriorInTrash

\* C27: Two-Way Merge issues its commands in the order listing, remote
\* mkdir, local-to-remote copies, remote-to-local copies, one copy per entry
\* missing on the other side; a remote-to-local copy is issued only after
\* every local-to-remote copy was issued and succeeded; a failed copy is the
\* last command of the run and the failure reported names its entry.
C27_MergeOrderAndAbort ==
  operation = "sync" =>
    /\ ( pc = "sync" ) = ( cmds = <<>> )
    /\ \A i \in DOMAIN cmds :
         /\ ( i = 1 ) = ( cmds[i].kind = "ls" )
         /\ ( i = 2 ) = ( cmds[i].kind = "mkdir" )
         /\ ( i > 2 ) = ( cmds[i].kind \in { "scp_up", "scp_down" } )
         /\ cmds[i].kind = "scp_up" =>
              /\ cmds[i].name \in local_files \ remote_files
              /\ \A j \in 1..(i - 1) :
                   cmds[j].kind # "scp_down" /\ cmds[j].name # cmds[i].name
         /\ cmds[i].kind = "scp_down" =>
              /\ cmds[i].name \in remote_files \ local_files
              /\ \A j \in 1..(i - 1) : cmds[j].name # cmds[i].name
              /\ \A nm \in local_files \ remote_files :
                   \E j \in 1..(i - 1) :
                     /\ cmds[j].kind = "scp_up"
                     /\ cmds[j].name = nm
                     /\ cmds[j].ok
         /\ ( i > 2 /\ ~cmds[i].ok ) =>
              /\ i = Len(cmds)
              /\ pc = "done"
              /\ finished =
                   Outcome(FALSE,
                           IF cmds[i].kind = "scp_up"
                           THEN "CopyToMacFailed" ELSE "CopyFromMacFailed",
                           cmds[i].name, 0, 0)

\* a merge that copied one entry to the remote and then failed on the next
\* copy, which it names
C27_Witness ==
  /\ operation = "sync" /\ pc = "done"
  /\ Len(cmds) >= 4
  /\ cmds[3].kind = "scp_up" /\ cmds[3].ok
  /\ ~cmds[Len(cmds)].ok
  /\ ~finished.success
  /\ finished.name = cmds[Len(cmds)].name

\* C28: Bootstrap issues ssh-keygen only while no private key is at the
\* conventional path, and only as its first command; when key generation
\* fails the run ends there with the key-generation failure as its
\* outcome: no install command and no verification command is issued.
C28_KeygenGuardedAndFatal ==
  /\ [][ ( /\ Len(cmds') = Len(cmds) + 1
           /\ cmds'[Len(cmds')].kind = "keygen" )
         => ( operation = "setup" /\ cmds = <<>> /\ ~keyExists ) ]_vars
  /\ []( ( /\ operation = "setup"
           /\ \E i \in CmdsOf("keygen") : ~cmds[i].ok )
         => /\ Len(cmds) = 1
            /\ CmdsOf("install") = {}
            /\ CmdsOf("verify") = {}
            /\ pc = "done"
            /\ finished = Outcome(FALSE, "KeygenFailed", NoName, 0, 0) )

\* a bootstrap that found no key, failed to generate one and stopped
C28_Witness ==
  /\ operation = "setup" /\ pc = "done"
  /\ ~keyExists
  /\ Len(cmds) = 1 /\ cmds[1].kind = "keygen" /\ ~cmds[1].ok
  /\ finished.msg = "KeygenFailed"

C32_OutcomeAttributed ==
  [][ ( events # <<>> /\ events' = Tail(events) ) =>
        /\ gui.pending_operation = Head(events).op
        /\ gui.current_worker = Head(events).from
        /\ Running(gui) = {}
    ]_vars

\* C33: a Mirror Push keeps every entry that earlier pushes moved into the
\* remote trash area, under its name and with its content.
C33_RemoteTrashKept ==
  operation = "push" =>
    \A nm \in DOMAIN rtrash0 :
      nm \in DOMAIN rtrash /\ rtrash[nm] = rtrash0[nm]

\* C34: when the debounce timer expires and an auto-push is started, some
\* change that armed the timer came from outside the tool; changes written
\* by the tool's own Mirror Pull or Two-Way Merge alone start no push.
C34_NoSelfTriggeredPush ==
  [][ ( gui.timer /\ ~gui'.timer /\ Len(gui'.threads) > Len(gui.threads) ) =>
        gui.armed_by = "outside"
    ]_vars

\* C35: a CLI keygen run that returns has issued ssh-keygen, whatever the
\* store holds.
C35_KeygenNeedsNoProfile ==
  ( operation = "cli" /\ cli_args.cmd = "keygen" /\ pc = "done" ) =>
    ( cmds # <<>> /\ cmds[1].kind = "cli_keygen" )

====
